---------------------------- MODULE Spec2Model ----------------------------
(***************************************************************************)
(* vnbase::run_loop -- the per-thread message loop: the message queue and  *)
(* its state (core.rs), the loop engine run() (mod.rs), the timer heap     *)
(* (core.rs), Timer (timer.rs) and Schedule (schedule.rs).                 *)
(*                                                                         *)
(* One loop thread ("loop") owns the RunLoop; foreign threads hold a       *)
(* Handle and call post/stop.  Every step of the loop thread between two   *)
(* points where it can be observed by another thread (mutex acquire,       *)
(* mutex release, condvar wait, start and end of a user callback) is one   *)
(* action.  User callbacks are arbitrary user code: while the loop thread  *)
(* is inside a callback (pc = "cb") it may make any of the API calls and    *)
(* then return.                                                            *)
(*                                                                         *)
(* Time is a natural number (one unit = 100 ms); Instant::now() reads now. *)
(* Heap indices are 0-based as in the source; data[i] of the source is     *)
(* timers.data[i + 1] here.                                                *)
(***************************************************************************)
EXTENDS Naturals, Sequences, FiniteSets

\* ------------------------------------------------------------- bounds
MaxPosts == 3        \* closures posted, by all threads together
MaxStops == 1        \* stop() calls of the foreign threads
MaxOps == 5          \* API calls the loop thread makes (outside run and in callbacks)
MaxLoopOps == 2      \* the same, where foreign threads post and stop as well
MaxTime == 2         \* the clock stops here
MaxDur == 1          \* largest Duration passed to start / set_period
MaxFired == 4        \* callback invocations counted per timed action (the count saturates)
MaxPassOps == 3      \* the same, where the passes of process_timers are followed to their end
MaxHeapOps == 7      \* push, adjust and remove calls on the heap taken alone
MaxHeapTime == 1     \* the times given to them
MaxRegOps == 6       \* new_object calls and handle drops on the registry
MaxObjOps == 3       \* clone, downgrade, upgrade and post calls on the loop object

\* Schedule::new: period = Duration::from_millis(100), one time unit
DefaultPeriod == 1

Foreign == {"a", "b"}
Threads == Foreign \cup {"loop"}
TimerIds == {"t1", "t2"}
ScheduleIds == {"s1"}
RegNodes == {"o1", "o2", "o3"}
HeapNodes == {"n1", "n2", "n3", "n4", "n5", "n6"}
Actions == TimerIds \cup ScheduleIds

VARIABLES
    pc,        \* where the loop thread is
    mutex,     \* Core.msgs: "free", "loop" (held by the loop thread), "poisoned"
    state,     \* MsgQueue.state
    list,      \* MsgQueue.list, head first
    signal,    \* Core.cond: a notify_one is pending for the blocked loop thread
    chain,     \* the drained chain process_msgs still has to execute
    executed,  \* per posting thread, its closures executed so far, in order
    posted,    \* per thread, the number of closures it has posted
    stops,     \* stop() calls made by foreign threads
    cbKind,    \* the callback the loop thread is in: "msg", "timer", "schedule"
    cur,       \* the timed action being processed
    curF,      \* the callback taken out of inner.act by process()
    cbDid,     \* what the running callback was given and the API calls it has made
    fired,     \* per timed action, how many times its callback has been called
    now,       \* Instant::now()
    ptNow,     \* `now` as read at the start of process_timers
    waitUntil, \* deadline of the timed wait
    timers,    \* RunLoop.timers: data, and every node's index and time
    timer,     \* the Timer objects
    schedule,  \* the Schedule objects
    opsLeft,   \* API calls left to the loop thread
    obj,       \* the loop object: its ObjectNode, its ObjH and the handles to it
    objects,   \* RunLoop.objects: the RefCell and the ObjectList in it
    ub         \* an access outside the heap vector has happened

mqVars == <<state, list, signal, posted, stops>>
loopVars == <<pc, mutex, chain, executed, ptNow, waitUntil>>
cbVars == <<cbKind, cur, curF, cbDid, fired>>
taVars == <<timers, timer, schedule, ub>>
vars == <<mqVars, loopVars, cbVars, taVars, now, opsLeft, obj, objects>>

None == "none"

Range(s) == {s[i] : i \in 1..Len(s)}

\* ------------------------------------------------------- message queue

\* mutant of push: the new node becomes the head
push_front(l, m) == <<m>> \o l

\* MsgQueue::push: the new node goes behind the tail
push(l, m) == Append(l, m)

\* MsgQueue::drain: the whole chain, leaving the list empty
drain(l) == [taken |-> l, left |-> <<>>]

\* the condvar has a thread to wake only while the loop thread is blocked in it
Blocked == pc \in {"wait", "twait"}

\* Core::post, after push: Waiting becomes MsgArrived
PostState(st) == IF st = "Waiting" THEN "MsgArrived" ELSE st

\* mutant of PostNotifies: post never signals the condvar
PostNeverNotifies(st) == FALSE

\* Core::post: notify_one exactly when the state read is Waiting
PostNotifies(st) == st = "Waiting"

\* mutant of StopNotifies: stop never signals the condvar
StopNeverNotifies(st) == FALSE

\* Core::stop: notify_one exactly when the state read is Waiting
StopNotifies(st) == st = "Waiting"

\* Core::stop: the state after stop
StopState(st) == "Stopping"

\* the closures of the queue: a user closure ("msg"), the closure of
\* ObjectHandle::drop on a foreign thread ("drop") and that of
\* ObjectHandle::post ("objpost")
MsgKinds == {"msg", "drop", "objpost"}

\* the closure a thread posts: who posted it, its number, and whether it is
\* posted while a stop request is pending (state Stopping)
NewMsg(th) ==
    [from |-> th, n |-> posted[th] + 1, kind |-> "msg", late |-> state = "Stopping"]

\* Core::post under the lock
CorePost(th) ==
    /\ mutex = "free"
    /\ posted["a"] + posted["b"] + posted["loop"] < MaxPosts
    /\ list' = push(list, NewMsg(th))
    /\ posted' = [posted EXCEPT ![th] = @ + 1]
    /\ state' = PostState(state)
    /\ signal' = (signal \/ (PostNotifies(state) /\ Blocked))
    /\ UNCHANGED stops

\* Core::stop under the lock
CoreStop ==
    /\ mutex = "free"
    /\ state' = StopState(state)
    /\ signal' = (signal \/ (StopNotifies(state) /\ Blocked))
    /\ UNCHANGED <<list, posted>>

\* Handle::post on a foreign thread
Post(th) ==
    /\ CorePost(th)
    /\ UNCHANGED <<loopVars, cbVars, taVars, now, opsLeft>>
    /\ UNCHANGED <<obj, objects>>

\* Handle::stop on a foreign thread
Stop ==
    /\ stops < MaxStops
    /\ CoreStop
    /\ stops' = stops + 1
    /\ UNCHANGED <<loopVars, cbVars, taVars, now, opsLeft>>
    /\ UNCHANGED <<obj, objects>>

\* ---------------------------------------------------------- timer heap
\* A heap value is [data, index, time]: the vector of actions, and the index and
\* time cells of every action's TimedActionNode (shared by all the Rc clones of
\* the action; a node keeps its cells while the action is not in the vector).
\* A heap operation yields [h, fault]: fault is "none", "oob" (get_unchecked /
\* get_unchecked_mut outside the vector: undefined behaviour) or "underflow"
\* (data.len() - 1 on an empty vector: a panic in a debug build, a wrapped
\* index and an access outside the vector in a release build).

Ok(h) == [h |-> h, fault |-> "none"]

Fault(h, f) == [h |-> h, fault |-> f]

\* data.get_unchecked(i)
At(h, i) == h.data[i + 1]

\* TimedActionBinaryHeap::swap: exchange the slots, then set both index cells
swap(h, a, b) ==
    LET d1 == [h.data EXCEPT ![a + 1] = h.data[b + 1], ![b + 1] = h.data[a + 1]]
        i1 == [h.index EXCEPT ![d1[a + 1]] = a]
        i2 == [i1 EXCEPT ![d1[b + 1]] = b]
    IN  [h EXCEPT !.data = d1, !.index = i2]

\* sift_up's loop test: stop when the node is not earlier than its parent
UpStops(h, index, parent) == h.time[At(h, index)] >= h.time[At(h, parent)]

\* TimedActionBinaryHeap::sift_up: [h, index], the heap and the final index
RECURSIVE sift_up(_, _)
sift_up(h, index) ==
    IF index = 0
    THEN [h |-> h, index |-> index]
    ELSE LET parent == (index - 1) \div 2
         IN  IF UpStops(h, index, parent)
             THEN [h |-> h, index |-> index]
             ELSE sift_up(swap(h, index, parent), parent)

\* sift_down's choice of child: the right one only when strictly earlier
PickChild(h, child, end) ==
    IF child + 1 < end /\ h.time[At(h, child + 1)] < h.time[At(h, child)]
    THEN child + 1
    ELSE child

\* sift_down's loop test: stop when the node is strictly earlier than the child
DownStops(h, index, child) == h.time[At(h, index)] < h.time[At(h, child)]

\* TimedActionBinaryHeap::sift_down
RECURSIVE sift_down(_, _)
sift_down(h, index) ==
    LET end == Len(h.data)
        first == index * 2 + 1
    IN  IF first >= end
        THEN [h |-> h, index |-> index]
        ELSE LET child == PickChild(h, first, end)
             IN  IF DownStops(h, index, child)
                 THEN [h |-> h, index |-> index]
                 ELSE sift_down(swap(h, index, child), child)

\* TimedActionBinaryHeap::push
HeapPush(h, act, time) ==
    LET index == Len(h.data)
        h1 == [data |-> Append(h.data, act),
               index |-> [h.index EXCEPT ![act] = index],
               time |-> [h.time EXCEPT ![act] = time]]
    IN  Ok(sift_up(h1, index).h)

\* TimedActionBinaryHeap::adjust: the node's time is written, then the slot the
\* node's index names is sifted (whatever action that slot holds)
HeapAdjust(h, act, time) ==
    LET h1 == [h EXCEPT !.time[act] = time]
        index == h.index[act]
    IN  IF index # 0 /\ index >= Len(h.data)
        THEN Fault(h1, "oob")
        ELSE LET up == sift_up(h1, index)
             IN  IF up.index = index
                 THEN Ok(sift_down(up.h, index).h)
                 ELSE Ok(up.h)

\* Vec::pop
Pop(h) == [h EXCEPT !.data = SubSeq(h.data, 1, Len(h.data) - 1)]

\* TimedActionBinaryHeap::remove: the slot the node's index names is removed
HeapRemove(h, act) ==
    LET index == h.index[act]
    IN  IF Len(h.data) = 0
        THEN Fault(h, "underflow")
        ELSE LET last == Len(h.data) - 1
             IN  IF index = last
                 THEN Ok(Pop(h))
                 ELSE IF index > last
                      THEN Fault(h, "oob")
                      ELSE Ok(sift_down(Pop(swap(h, index, last)), index).h)

\* TimedActionBinaryHeap::peek: the root if its time has come, else none
peek(h, time) ==
    IF Len(h.data) = 0
    THEN None
    ELSE IF h.time[At(h, 0)] <= time THEN At(h, 0) ELSE None

\* TimedActionBinaryHeap::peek_time: the root's time; only used on a nonempty heap
peek_time(h) == h.time[At(h, 0)]

\* RunLoop::calculate_waiting_time: "Infinite", "Zero" or "Duration"
calculate_waiting_time(h, t) ==
    IF Len(h.data) = 0
    THEN "Infinite"
    ELSE IF t >= peek_time(h) THEN "Zero" ELSE "Duration"

\* -------------------------------------------------------------- Timer
\* timer[t] = [state, at, act, cod, alive]: Inner.state ("None", "Active",
\* "Processing", "Restart" with its Instant in `at`), Inner.act ("none", "mut" for
\* an FnMut callback, "once" for an FnOnce one), cancel_on_drop, and whether the
\* user's Timer handle still exists.  A Timer or Schedule operation yields
\* [obj, hr]: the object after the call and the heap operation's result.

\* Timer::is_active
Timer_is_active(tm) == tm.state \in {"Active", "Restart"}

\* Timer::start on timer t, whose Inner is tm, with the heap h
Timer_start(tm, h, t, time) ==
    CASE tm.state = "None" -> [obj |-> tm, hr |-> HeapPush(h, t, now + time)]
      [] tm.state = "Active" -> [obj |-> tm, hr |-> HeapAdjust(h, t, now + time)]
      [] OTHER -> [obj |-> [tm EXCEPT !.state = "Restart", !.at = now + time], hr |-> Ok(h)]

\* a cancel that takes the timer out of the heap at once, in every state
Timer_cancel_eager(tm, h, t) ==
    [obj |-> [tm EXCEPT !.state = "None"], hr |-> HeapRemove(h, t)]

\* Timer::cancel
Timer_cancel(tm, h, t) ==
    CASE tm.state \in {"None", "Processing"} -> [obj |-> tm, hr |-> Ok(h)]
      [] tm.state = "Active" -> [obj |-> tm, hr |-> HeapRemove(h, t)]
      [] OTHER -> [obj |-> [tm EXCEPT !.state = "Processing", !.at = 0], hr |-> Ok(h)]

\* a drop that cancels whatever cancel_on_drop says
Timer_drop_cancels(tm, h, t) ==
    LET r == Timer_cancel(tm, h, t)
    IN  [obj |-> [r.obj EXCEPT !.alive = FALSE], hr |-> r.hr]

\* <Timer as Drop>::drop: cancel first when cancel_on_drop is set
Timer_drop(tm, h, t) ==
    LET r == IF tm.cod THEN Timer_cancel(tm, h, t) ELSE [obj |-> tm, hr |-> Ok(h)]
    IN  [obj |-> [r.obj EXCEPT !.alive = FALSE], hr |-> r.hr]

\* a call that reports every callback as one to put back
call_keeps(f) == TRUE

\* Action::call: true for an FnMut callback, false for an Option<FnOnce>
call(f) == f = "mut"

\* <timer::Data as TimedAction>::process, after the callback returned with ok:
\* the callback is put back if none was installed meanwhile, and the state
\* decides what is returned: ret is "Some" (with time) or "None"
Timer_process_end(tm, f, ok) ==
    LET act == IF tm.act = "none" /\ ok THEN f ELSE tm.act
    IN  CASE tm.state = "Processing" ->
                [obj |-> [tm EXCEPT !.act = act, !.state = "None"],
                 ret |-> "None", time |-> 0]
          [] tm.state = "Restart" ->
                [obj |-> [tm EXCEPT !.act = act, !.state = "Active", !.at = 0],
                 ret |-> "Some", time |-> tm.at]
          [] OTHER ->
                [obj |-> [tm EXCEPT !.act = act], ret |-> "unreachable", time |-> 0]

\* ----------------------------------------------------------- Schedule
\* schedule[s] = [state, period, last, target, act, cod, alive]: Inner.state
\* ("None", "Active", "Processing", "Cancelled"), period, last, target, whether
\* Inner.act holds a callback, cancel_on_drop, and whether the handle exists.

\* Schedule::is_active
Schedule_is_active(sc) == sc.state \notin {"None", "Cancelled"}

\* Schedule::set_period on schedule s, whose Inner is sc, with the heap h
Schedule_set_period(sc, h, s, period) ==
    IF sc.period # period
    THEN [obj |-> [sc EXCEPT !.period = period],
          hr |-> IF sc.state = "Active" THEN HeapAdjust(h, s, sc.last + period) ELSE Ok(h)]
    ELSE [obj |-> sc, hr |-> Ok(h)]

\* Schedule::start
Schedule_start(sc0, h, s) ==
    LET target == now + sc0.period
        sc == [sc0 EXCEPT !.last = now, !.target = target]
    IN  CASE sc.state = "None" -> [obj |-> sc, hr |-> HeapPush(h, s, target)]
          [] sc.state = "Active" -> [obj |-> sc, hr |-> HeapAdjust(h, s, target)]
          [] sc.state = "Processing" -> [obj |-> sc, hr |-> Ok(h)]
          [] OTHER -> [obj |-> [sc EXCEPT !.state = "Processing"], hr |-> Ok(h)]

\* Schedule::cancel
Schedule_cancel(sc, h, s) ==
    CASE sc.state \in {"None", "Cancelled"} -> [obj |-> sc, hr |-> Ok(h)]
      [] sc.state = "Active" -> [obj |-> sc, hr |-> HeapRemove(h, s)]
      [] OTHER -> [obj |-> [sc EXCEPT !.state = "Cancelled"], hr |-> Ok(h)]

\* <Schedule as Drop>::drop
Schedule_drop(sc, h, s) ==
    LET r == IF sc.cod THEN Schedule_cancel(sc, h, s) ELSE [obj |-> sc, hr |-> Ok(h)]
    IN  [obj |-> [r.obj EXCEPT !.alive = FALSE], hr |-> r.hr]

\* a process() that takes the next target from the clock instead
Schedule_process_rephased(sc) ==
    [sc EXCEPT !.last = now, !.target = now + sc.period]

\* <schedule::Data as TimedAction>::process, before the callback: last and
\* target move on (dt = now - last is handed to the callback)
Schedule_process_begin(sc) ==
    [sc EXCEPT !.last = now, !.target = sc.target + sc.period]

\* <schedule::Data as TimedAction>::process, after the callback returned
Schedule_process_end(sc) ==
    CASE sc.state = "Processing" ->
            [obj |-> [sc EXCEPT !.act = TRUE, !.state = "Active"],
             ret |-> "Some", time |-> sc.target]
      [] sc.state = "Cancelled" ->
            [obj |-> [sc EXCEPT !.act = TRUE, !.state = "None"],
             ret |-> "None", time |-> 0]
      [] OTHER ->
            [obj |-> [sc EXCEPT !.act = TRUE], ret |-> "unreachable", time |-> 0]

\* ------------------------------------------------- loop thread, API calls
\* The loop thread makes API calls outside run() (pc = "idle") and inside a user
\* callback (pc = "cb"), a bounded number of them in all.

InCtx == pc \in {"idle", "cb"}

Spend == opsLeft > 0 /\ opsLeft' = opsLeft - 1

\* cbDid at the start of a callback: dt is the Duration a schedule's callback is
\* given, stop and self are the calls the callback has made so far
NoCalls == [stop |-> FALSE, self |-> "none", dt |-> 0]

\* the running callback called `what` on the action it belongs to
NoteSelf(a, what) ==
    IF pc = "cb" /\ cbKind \notin MsgKinds /\ cur = a /\ what # None
    THEN [cbDid EXCEPT !.self = what]
    ELSE cbDid

\* what a faulting heap operation does to the loop thread: an access outside
\* the vector is undefined behaviour (the model stops the thread in "crashed"
\* and sets ub: nothing is claimed of a run after that); len() - 1 on an empty
\* vector panics in a debug build and is such an access in a release build
Outcomes(fault) == IF fault = "oob" THEN {"crashed"} ELSE {"panic", "crashed"}

\* the heap after a heap operation, and where the loop thread goes on
HeapCommit(hr, okPc) ==
    IF hr.fault = "none"
    THEN timers' = hr.h /\ ub' = ub /\ pc' = okPc
    ELSE /\ timers' = hr.h
         /\ \E o \in Outcomes(hr.fault) : pc' = o /\ ub' = (ub \/ o = "crashed")

\* Handle::post / ObjectHandle-free post on the loop's own thread
LoopPost ==
    /\ InCtx /\ Spend
    /\ CorePost("loop")
    /\ UNCHANGED <<loopVars, cbKind, cur, curF, cbDid, fired, taVars, now>>
    /\ UNCHANGED <<obj, objects>>

\* run_loop::stop on the loop's own thread
LoopStop ==
    /\ InCtx /\ Spend
    /\ CoreStop
    /\ cbDid' = IF pc = "cb" /\ cbKind \notin MsgKinds
                 THEN [cbDid EXCEPT !.stop = TRUE] ELSE cbDid
    /\ UNCHANGED <<stops, loopVars, cbKind, cur, curF, fired, taVars, now>>
    /\ UNCHANGED <<obj, objects>>

\* a Timer call r made on timer t
TimerCall(t, r, what) ==
    /\ InCtx /\ Spend
    /\ timer[t].alive
    /\ timer' = [timer EXCEPT ![t] = r.obj]
    /\ HeapCommit(r.hr, pc)
    /\ cbDid' = NoteSelf(t, what)
    /\ UNCHANGED <<mqVars, mutex, chain, executed, ptNow, waitUntil,
                   cbKind, cur, curF, fired, schedule, now>>
    /\ UNCHANGED <<obj, objects>>

TimerStart(t, d) == TimerCall(t, Timer_start(timer[t], timers, t, d), "start")

TimerCancel(t) == TimerCall(t, Timer_cancel(timer[t], timers, t), "cancel")

TimerDrop(t) ==
    TimerCall(t, Timer_drop(timer[t], timers, t), IF timer[t].cod THEN "cancel" ELSE None)

\* a Schedule call r made on schedule s
ScheduleCall(s, r, what) ==
    /\ InCtx /\ Spend
    /\ schedule[s].alive
    /\ schedule' = [schedule EXCEPT ![s] = r.obj]
    /\ HeapCommit(r.hr, pc)
    /\ cbDid' = NoteSelf(s, what)
    /\ UNCHANGED <<mqVars, mutex, chain, executed, ptNow, waitUntil,
                   cbKind, cur, curF, fired, timer, now>>
    /\ UNCHANGED <<obj, objects>>

ScheduleStart(s) == ScheduleCall(s, Schedule_start(schedule[s], timers, s), "start")

ScheduleCancel(s) == ScheduleCall(s, Schedule_cancel(schedule[s], timers, s), "cancel")

ScheduleSetPeriod(s, p) ==
    ScheduleCall(s, Schedule_set_period(schedule[s], timers, s, p), None)

ScheduleDrop(s) ==
    ScheduleCall(s, Schedule_drop(schedule[s], timers, s), IF schedule[s].cod THEN "cancel" ELSE None)

\* -------------------------------------------------------- the registry
\* objects is RunLoop.objects, the RefCell with the ObjectList of the loop:
\* head, and next and prev of every node, are the list's links; live is the
\* set of allocated ObjectNodes; holder[n] is who owns the one ObjectHandle of
\* node n ("loop" for the code of the loop thread, a node for a handle kept in
\* that node's value, "away" for another thread); borrowed is the RefCell's borrow_mut flag; at is the
\* node whose Box is being dropped inside ObjectList::remove.

\* ObjectList::new, in a RefCell nobody has borrowed
Registry_new ==
    [head |-> None, next |-> [n \in RegNodes |-> None],
     prev |-> [n \in RegNodes |-> None], live |-> {},
     holder |-> [n \in RegNodes |-> None], borrowed |-> FALSE, at |-> None]

\* ObjectList::create: the node gets next = head and prev = None; the old head's
\* prev and the head itself are set only if there is a head
Registry_create(r, n) ==
    LET r1 == [r EXCEPT !.next[n] = r.head, !.prev[n] = None, !.live = @ \cup {n}]
    IN  IF r.head # None
        THEN [r1 EXCEPT !.prev[r.head] = n, !.head = n]
        ELSE r1

\* ObjectList::remove: the links around the node are closed
Registry_remove(r, n) ==
    LET next == r.next[n]
        prev == r.prev[n]
        r1 == IF prev # None THEN [r EXCEPT !.next[prev] = next]
                             ELSE [r EXCEPT !.head = next]
    IN  IF next # None THEN [r1 EXCEPT !.prev[next] = prev] ELSE r1

\* the nodes a walk from node n along next visits, k steps at most
RECURSIVE Walk(_, _, _)
Walk(r, n, k) ==
    IF n = None \/ k = 0 THEN {} ELSE {n} \cup Walk(r, r.next[n], k - 1)

\* the nodes the list holds
Listed(r) == Walk(r, r.head, Cardinality(RegNodes))

\* <ObjectList as Drop>::drop: the nodes the walk from head visits are freed
Registry_drop(r) == [r EXCEPT !.live = @ \ Listed(r), !.head = None]

\* who the code that is running is: the value being dropped, or the loop
\* thread's own code
Running == IF objects.at = None THEN "loop" ELSE objects.at

RegRest ==
    UNCHANGED <<mqVars, mutex, chain, executed, ptNow, waitUntil, cbVars, taVars,
                now, obj>>

\* new_object(value) on the loop thread, for a node n and a value that takes
\* over the handle of node m (or none): objects.borrow_mut().create(value)
RegNew(n, m) ==
    /\ pc = "idle" /\ Spend /\ obj.opc["loop"] = "idle"
    /\ n \notin objects.live /\ n # objects.at
    /\ m # None => (m \in objects.live /\ objects.holder[m] = Running /\ m # n)
    /\ IF objects.borrowed
       THEN pc' = "panic" /\ UNCHANGED objects
       ELSE /\ pc' = pc
            /\ objects' = [Registry_create(objects, n) EXCEPT
                              !.holder = [k \in RegNodes |->
                                            IF k = n THEN Running
                                            ELSE IF k = m THEN n ELSE @[k]]]
    /\ RegRest

\* the drop of the ObjectHandle of node n, its only one, by the running code:
\* dec_strong yields the node, the handle is the loop's own, and drop_object
\* does objects.borrow_mut().remove(n); remove takes the node into a Box and
\* closes the links
RegDrop(n) ==
    /\ pc = "idle" /\ Spend /\ obj.opc["loop"] = "idle"
    /\ n \in objects.live /\ objects.holder[n] = Running
    /\ IF objects.borrowed
       THEN pc' = "panic" /\ UNCHANGED objects
       ELSE /\ pc' = pc
            /\ objects' = [Registry_remove(objects, n) EXCEPT
                              !.holder[n] = None, !.borrowed = TRUE, !.at = n]
    /\ RegRest

\* the loop thread's code sends its handle of node n to another thread, which
\* keeps it
RegGive(n) ==
    /\ pc = "idle" /\ Spend /\ obj.opc["loop"] = "idle"
    /\ objects.at = None /\ n \in objects.live /\ objects.holder[n] = "loop"
    /\ objects' = [objects EXCEPT !.holder[n] = "away"]
    /\ UNCHANGED pc
    /\ RegRest

\* the end of ObjectList::remove: the Box of the node has been dropped, with the
\* value and every handle in it, and the borrow ends
RegDropEnd ==
    /\ pc = "idle" /\ objects.at # None
    /\ \A k \in RegNodes : objects.holder[k] # objects.at
    /\ objects' = [objects EXCEPT !.live = @ \ {objects.at}, !.borrowed = FALSE,
                                  !.at = None]
    /\ UNCHANGED <<pc, opsLeft>>
    /\ RegRest

\* ------------------------------------------------------- loop objects
\* obj is one loop object of this loop: strong and weak are the counters of its
\* ObjH, ctl says whether the ObjH is allocated, node whether the ObjectNode
\* (and the value in it) is, head is ObjectList.head, hs and ws count the
\* ObjectHandles and ObjectWeaks each thread holds, opc is where each thread is
\* inside an ObjectHandle drop or an upgrade, n is the value of strong a
\* thread's upgrade has read, rel says that the running ObjectHandle::post
\* closure has given up its reference, destroyedBy lists the threads that
\* destroyed the node, left bounds the clone / downgrade / upgrade / post calls
\* and ub records a use of freed memory.

\* an is_own_handle that takes every thread for the owner
is_own_always(th) == TRUE

\* is_own_handle: the handle's Core is that of the calling thread's loop
is_own_handle(th) == th = "loop"

\* an upgrade that exchanges whatever it has read
upgrade_unchecked(n) == TRUE

\* ObjectWeak::upgrade: the test of the value n of strong before the exchange
upgrade_allowed(n) == n # 0

\* ObjectList::create: the head after a node was created
ObjectList_create(head, node) == IF head # None THEN node ELSE head

\* ObjectList::remove of a node that has neither prev nor next
ObjectList_remove(head) == None

\* new_object on the loop thread: ObjectList::create with strong = weak = 1
ObjNew ==
    [strong |-> 1, weak |-> 1, ctl |-> "live", node |-> "live",
     head |-> ObjectList_create(None, "o"),
     hs |-> [th \in Threads |-> IF th = "loop" THEN 1 ELSE 0],
     ws |-> [th \in Threads |-> 0],
     opc |-> [th \in Threads |-> "idle"],
     n |-> [th \in Threads |-> 0],
     rel |-> FALSE, destroyedBy |-> <<>>, left |-> MaxObjOps, ub |-> FALSE]

\* drop_object on thread th: ObjectList::remove takes the node back into a Box
\* and drops it, and the value with it
drop_object(o, th) ==
    [o EXCEPT !.node = "destroyed", !.destroyedBy = Append(@, th),
              !.head = ObjectList_remove(o.head),
              !.ub = (@ \/ o.node = "destroyed")]

\* thread th is free to make a call on a handle it holds
Can(th) == obj.opc[th] = "idle" /\ (th = "loop" => (InCtx /\ objects.at = None))

ObjRest == UNCHANGED <<mqVars, loopVars, cbVars, taVars, now, opsLeft, objects>>

ObjSpend(o) == [o EXCEPT !.left = @ - 1]

\* <ObjectHandle as Clone>::clone on thread th; the clone is moved to thread to
ObjClone(th, to) ==
    /\ Can(th) /\ obj.hs[th] > 0 /\ obj.left > 0
    /\ obj' = [ObjSpend(obj) EXCEPT !.strong = @ + 1, !.hs[to] = @ + 1]
    /\ ObjRest

\* a downgrade that hands out an ObjectWeak without counting it
ObjDowngrade_uncounted(th, to) ==
    /\ Can(th) /\ obj.hs[th] > 0 /\ obj.left > 0
    /\ obj' = [ObjSpend(obj) EXCEPT !.ws[to] = @ + 1]
    /\ ObjRest

\* ObjectHandle::downgrade on thread th; the ObjectWeak is moved to thread to
ObjDowngrade(th, to) ==
    /\ Can(th) /\ obj.hs[th] > 0 /\ obj.left > 0
    /\ obj' = [ObjSpend(obj) EXCEPT !.weak = @ + 1, !.ws[to] = @ + 1]
    /\ ObjRest

\* <ObjectWeak as Clone>::clone on thread th: inc_weak; the clone is moved to
\* thread to
ObjWeakClone(th, to) ==
    /\ Can(th) /\ obj.ws[th] > 0 /\ obj.left > 0
    /\ obj' = [ObjSpend(obj) EXCEPT !.weak = @ + 1, !.ws[to] = @ + 1,
                                    !.ub = (@ \/ obj.ctl = "freed")]
    /\ ObjRest

\* ObjH::dec_weak: the control block is freed by who takes weak from 1 to 0
dec_weak(o) ==
    [o EXCEPT !.weak = IF @ > 0 THEN @ - 1 ELSE 0,
              !.ctl = IF o.weak = 1 THEN "freed" ELSE @,
              !.ub = (@ \/ o.ctl = "freed")]

\* <ObjectWeak as Drop>::drop on thread th
ObjWeakDrop(th) ==
    /\ Can(th) /\ obj.ws[th] > 0
    /\ obj' = [dec_weak(obj) EXCEPT !.ws[th] = @ - 1]
    /\ ObjRest

\* ObjectWeak::upgrade on thread th: strong is read
UpgradeLoad(th) ==
    /\ Can(th) /\ obj.ws[th] > 0 /\ obj.left > 0
    /\ obj' = [ObjSpend(obj) EXCEPT !.n[th] = obj.strong, !.opc[th] = "cas",
                                    !.ub = (@ \/ obj.ctl = "freed")]
    /\ ObjRest

\* ObjectWeak::upgrade on thread th, one turn of its loop: None for n = 0, else
\* the compare-exchange of n for n + 1, which yields a handle or a new n (a
\* spurious failure of compare_exchange_weak changes nothing: a stuttering step)
UpgradeCas(th) ==
    /\ obj.opc[th] = "cas"
    /\ obj' = IF ~upgrade_allowed(obj.n[th])
              THEN [obj EXCEPT !.opc[th] = "idle", !.n[th] = 0]
              ELSE IF obj.strong = obj.n[th]
                   THEN [obj EXCEPT !.strong = @ + 1, !.hs[th] = @ + 1,
                                    !.opc[th] = "idle", !.n[th] = 0]
                   ELSE [obj EXCEPT !.n[th] = obj.strong]
    /\ ObjRest

\* ObjH::dec_strong, its fetch_sub on strong: who takes strong from 1 to 0
\* goes on to the weak counter
dec_strong(o, th) ==
    [o EXCEPT !.strong = IF @ > 0 THEN @ - 1 ELSE 0,
              !.opc[th] = IF o.strong = 1 THEN "decweak" ELSE "idle",
              !.ub = (@ \/ o.ctl = "freed")]

\* <ObjectHandle as Drop>::drop on thread th: dec_strong
ObjDrop(th) ==
    /\ Can(th) /\ obj.hs[th] > 0
    /\ obj' = [dec_strong(obj, th) EXCEPT !.hs[th] = @ - 1]
    /\ ObjRest

\* ObjH::dec_strong, after the last strong reference went: the reference the
\* strong ones hold together on weak is given up
DecWeak(th) ==
    /\ obj.opc[th] = "decweak"
    /\ th = "loop" => InCtx
    /\ obj' = [dec_weak(obj) EXCEPT !.opc[th] = "dispose"]
    /\ ObjRest

\* Core::post of a closure of ObjectHandle
CorePostObj(th, kind) ==
    /\ mutex = "free"
    /\ list' = push(list, [from |-> th, n |-> 0, kind |-> kind,
                            late |-> state = "Stopping"])
    /\ state' = PostState(state)
    /\ signal' = (signal \/ (PostNotifies(state) /\ Blocked))
    /\ UNCHANGED <<posted, stops>>

\* <ObjectHandle as Drop>::drop (and the end of an ObjectHandle::post closure)
\* with the node pointer dec_strong returned: drop_object here on the owner's
\* thread, a closure doing it posted to the owner's loop on any other
Dispose(th) ==
    /\ obj.opc[th] = "dispose"
    /\ th = "loop" => InCtx
    /\ IF is_own_handle(th)
       THEN /\ obj' = [drop_object(obj, th) EXCEPT !.opc[th] = "idle"]
            /\ UNCHANGED mqVars
       ELSE /\ CorePostObj(th, "drop")
            /\ obj' = [obj EXCEPT !.opc[th] = "idle"]
    /\ UNCHANGED <<loopVars, cbVars, taVars, now, opsLeft, objects>>

\* ObjectHandle::post on thread th: inc_strong, then the closure is posted
ObjPost(th) ==
    /\ Can(th) /\ obj.hs[th] > 0 /\ obj.left > 0
    /\ CorePostObj(th, "objpost")
    /\ obj' = [ObjSpend(obj) EXCEPT !.strong = @ + 1]
    /\ UNCHANGED <<loopVars, cbVars, taVars, now, opsLeft, objects>>

\* <ObjectList as Drop>::drop: every node the list reaches is dropped
ObjectList_drop(o) ==
    IF o.head = None THEN o
    ELSE [o EXCEPT !.node = "destroyed", !.destroyedBy = Append(@, "loop"),
                   !.head = None, !.ub = (@ \/ o.node = "destroyed")]

\* The loop thread ends, outside run() and with no handle left on it: its
\* RUN_LOOP is dropped.  <RunLoop as Drop>::drop drains the queue, the closures
\* in it are dropped without being called, then the fields are dropped
Teardown ==
    /\ pc = "idle" /\ mutex = "free"
    /\ obj.opc["loop"] = "idle" /\ obj.hs["loop"] = 0 /\ obj.ws["loop"] = 0
    /\ objects.at = None /\ \A n \in RegNodes : objects.holder[n] # "loop"
    /\ objects' = Registry_drop(objects)
    /\ pc' = "exited"
    /\ list' = drain(list).left
    /\ obj' = ObjectList_drop(obj)
    /\ UNCHANGED <<state, signal, posted, stops, mutex, chain, executed, ptNow,
                   waitUntil, cbVars, taVars, now, opsLeft>>

\* the closure of ObjectHandle::post, after msg(&obj.obj): dec_strong
ObjPostEnd ==
    /\ pc = "cb" /\ cbKind = "objpost" /\ ~obj.rel /\ obj.opc["loop"] = "idle"
    /\ obj' = [dec_strong(obj, "loop") EXCEPT !.rel = TRUE,
                                              !.ub = (@ \/ obj.node = "destroyed")]
    /\ ObjRest

\* --------------------------------------------------------- loop engine
\* pc: "idle" (outside run), "entry" (run holds the lock, before its first
\* match), "exec" (process_msgs between two closures of the drained chain),
\* "cb" (inside a user callback), "pt" (process_timers, at its while test),
\* "lock" (before msgs = lock()), "top" (lock held, at the top of the loop),
\* "wait" / "twait" (blocked in cond.wait / cond.wait_timeout), "panic"
\* (unwound by a panic), "crashed" (after undefined behaviour), "exited" (the
\* thread has ended and its RUN_LOOP is dropped).

\* run(): msgs = lock(); the loop thread calls it between two other calls of
\* its own, never from inside a handle's drop or an upgrade
RunLock ==
    /\ pc = "idle" /\ mutex = "free" /\ obj.opc["loop"] = "idle"
    /\ pc' = "entry" /\ mutex' = "loop"
    /\ UNCHANGED <<mqVars, chain, executed, ptNow, waitUntil, cbVars, taVars, now, opsLeft>>
    /\ UNCHANGED <<obj, objects>>

\* process_msgs under the lock: with closures queued the lock is dropped and the
\* chain is executed ("exec"); with none the guard is handed back ("kept")
process_msgs(l) == IF Len(l) > 0 THEN "exec" ELSE "kept"

\* a match on entry that takes a pending stop request for a start
EntryMatch_starts(st) ==
    CASE st \in {"Stopped", "Stopping"} -> [state |-> "Running", go |-> "on"]
      [] st = "Running" -> [state |-> st, go |-> "return"]
      [] OTHER -> [state |-> st, go |-> "unreachable"]

\* run(): the match on entry; what the state becomes and whether run goes on
EntryMatch(st) ==
    CASE st = "Stopped" -> [state |-> "Running", go |-> "on"]
      [] st = "Stopping" -> [state |-> "Stopped", go |-> "return"]
      [] st = "Running" -> [state |-> st, go |-> "return"]
      [] OTHER -> [state |-> st, go |-> "unreachable"]

\* run(): entry match, process_msgs(msgs) (its guard, if handed back, is
\* dropped at once), then process_timers
RunEntry ==
    /\ pc = "entry"
    /\ LET m == EntryMatch(state)
       IN  /\ state' = m.state
           /\ IF m.go = "on"
              THEN /\ mutex' = "free"
                   /\ IF process_msgs(list) = "exec"
                      THEN /\ chain' = drain(list).taken
                           /\ list' = drain(list).left
                           /\ pc' = "exec"
                           /\ ptNow' = ptNow
                      ELSE /\ pc' = "pt"
                           /\ ptNow' = now
                           /\ UNCHANGED <<list, chain>>
              ELSE /\ pc' = IF m.go = "return" THEN "idle" ELSE "panic"
                   /\ mutex' = IF m.go = "return" THEN "free" ELSE "poisoned"
                   /\ UNCHANGED <<list, chain, ptNow>>
    /\ UNCHANGED <<signal, posted, stops, executed, waitUntil, cbVars, taVars, now, opsLeft>>
    /\ UNCHANGED <<obj, objects>>

\* ActionNode::process: the next closure of the chain is called
ExecNext ==
    /\ pc = "exec"
    /\ executed' = IF Head(chain).kind = "msg"
                   THEN [executed EXCEPT ![Head(chain).from] = Append(@, Head(chain).n)]
                   ELSE executed
    /\ obj' = IF Head(chain).kind = "drop" THEN drop_object(obj, "loop") ELSE obj
    /\ UNCHANGED objects
    /\ chain' = Tail(chain)
    /\ pc' = "cb"
    /\ cbKind' = Head(chain).kind /\ cbDid' = NoCalls
    /\ UNCHANGED <<mqVars, mutex, ptNow, waitUntil, cur, curF, fired, taVars, now, opsLeft>>

\* process_timers: apply what process() returned
ApplyRet(h, a, r) ==
    IF r.ret = "Some" THEN HeapAdjust(h, a, r.time) ELSE HeapRemove(h, a)

\* process_timers: one turn of `while let Some(t) = timers.peek(now)`, up to the
\* call of the user callback (or, for an action without callback, to the end)
\* one more call of the callback of timed action a
Count(a) ==
    [fired EXCEPT ![a] = IF fired[a] < MaxFired THEN fired[a] + 1 ELSE MaxFired]

PtPeek ==
    /\ pc = "pt"
    /\ LET a == peek(timers, ptNow)
       IN  IF a = None
           THEN /\ pc' = "lock" /\ ptNow' = 0
                /\ UNCHANGED <<cbVars, taVars>>
           ELSE IF a \in TimerIds
           THEN IF timer[a].act # "none"
                THEN /\ timer' = [timer EXCEPT ![a].act = "none", ![a].state = "Processing"]
                     /\ pc' = "cb" /\ cbKind' = "timer" /\ cur' = a /\ curF' = timer[a].act
                     /\ cbDid' = NoCalls /\ fired' = Count(a)
                     /\ UNCHANGED <<ptNow, timers, schedule, ub>>
                ELSE /\ timer' = [timer EXCEPT ![a].state = "None"]
                     /\ HeapCommit(HeapRemove(timers, a), "pt")
                     /\ UNCHANGED <<ptNow, cbVars, schedule>>
           ELSE LET sc == Schedule_process_begin(schedule[a])
                IN  IF sc.act
                    THEN /\ schedule' = [schedule EXCEPT ![a] =
                                            [sc EXCEPT !.act = FALSE, !.state = "Processing"]]
                         /\ pc' = "cb" /\ cbKind' = "schedule" /\ cur' = a /\ curF' = "mut"
                         /\ cbDid' = [NoCalls EXCEPT !.dt = now - schedule[a].last]
                         /\ fired' = Count(a)
                         /\ UNCHANGED <<ptNow, timers, timer, ub>>
                    ELSE /\ schedule' = [schedule EXCEPT ![a] = sc]
                         /\ HeapCommit(HeapAdjust(timers, a, sc.target), "pt")
                         /\ UNCHANGED <<ptNow, cbVars, timer>>
    /\ UNCHANGED <<mqVars, mutex, chain, executed, waitUntil, now, opsLeft>>
    /\ UNCHANGED <<obj, objects>>

\* the user callback returns: to process_msgs (the next closure, or
\* process_timers after the last one), or to process() and process_timers
CbReturn ==
    /\ pc = "cb"
    /\ obj.opc["loop"] = "idle" /\ (cbKind = "objpost" => obj.rel)
    /\ obj' = [obj EXCEPT !.rel = FALSE]
    /\ UNCHANGED objects
    /\ cbKind' = None /\ cur' = None /\ curF' = None /\ cbDid' = NoCalls
    /\ UNCHANGED fired
    /\ CASE cbKind \in MsgKinds ->
              /\ pc' = IF Len(chain) = 0 THEN "pt" ELSE "exec"
              /\ ptNow' = IF Len(chain) = 0 THEN now ELSE ptNow
              /\ UNCHANGED taVars
         [] cbKind = "timer" ->
              LET r == Timer_process_end(timer[cur], curF, call(curF))
              IN  /\ timer' = [timer EXCEPT ![cur] = r.obj]
                  /\ IF r.ret = "unreachable"
                     THEN pc' = "panic" /\ UNCHANGED <<timers, ub>>
                     ELSE HeapCommit(ApplyRet(timers, cur, r), "pt")
                  /\ UNCHANGED <<ptNow, schedule>>
         [] OTHER ->
              LET r == Schedule_process_end(schedule[cur])
              IN  /\ schedule' = [schedule EXCEPT ![cur] = r.obj]
                  /\ IF r.ret = "unreachable"
                     THEN pc' = "panic" /\ UNCHANGED <<timers, ub>>
                     ELSE HeapCommit(ApplyRet(timers, cur, r), "pt")
                  /\ UNCHANGED <<ptNow, timer>>
    /\ UNCHANGED <<mqVars, mutex, chain, executed, waitUntil, now, opsLeft>>

\* run(): msgs = lock() after process_timers
LockTop ==
    /\ pc = "lock" /\ mutex = "free"
    /\ pc' = "top" /\ mutex' = "loop"
    /\ UNCHANGED <<mqVars, chain, executed, ptNow, waitUntil, cbVars, taVars, now, opsLeft>>
    /\ UNCHANGED <<obj, objects>>

\* a match at the top of the loop that does not look for a stop request
TopMatch_deaf(st) ==
    CASE st = "Stopped" -> [state |-> st, go |-> "unreachable"]
      [] OTHER -> [state |-> "Running", go |-> "on"]

\* run(): the match at the top of the loop
TopMatch(st) ==
    CASE st = "Stopping" -> [state |-> "Stopped", go |-> "return"]
      [] st \in {"Waiting", "MsgArrived"} -> [state |-> "Running", go |-> "on"]
      [] st = "Running" -> [state |-> st, go |-> "on"]
      [] OTHER -> [state |-> st, go |-> "unreachable"]

\* the state run() leaves before it blocks in the condvar
WaitState == "Waiting"

\* run(): one turn of the loop with the lock held: the match, process_msgs, and
\* with no closure queued the waiting time and the wait it leads to
Top ==
    /\ pc = "top"
    /\ LET m == TopMatch(state)
           w == calculate_waiting_time(timers, now)
       IN  IF m.go # "on"
           THEN /\ state' = m.state
                /\ pc' = IF m.go = "return" THEN "idle" ELSE "panic"
                /\ mutex' = IF m.go = "return" THEN "free" ELSE "poisoned"
                /\ UNCHANGED <<list, chain, ptNow, waitUntil, signal>>
           ELSE /\ mutex' = "free"
                /\ IF process_msgs(list) = "exec"
                   THEN /\ chain' = drain(list).taken
                        /\ list' = drain(list).left
                        /\ state' = m.state
                        /\ pc' = "exec"
                        /\ UNCHANGED <<ptNow, waitUntil, signal>>
                   ELSE /\ UNCHANGED <<list, chain>>
                        /\ signal' = FALSE
                        /\ CASE w = "Zero" ->
                                  /\ state' = m.state
                                  /\ pc' = "pt" /\ ptNow' = now
                                  /\ UNCHANGED waitUntil
                             [] w = "Infinite" ->
                                  /\ state' = WaitState
                                  /\ pc' = "wait"
                                  /\ UNCHANGED <<ptNow, waitUntil>>
                             [] OTHER ->
                                  /\ state' = WaitState
                                  /\ pc' = "twait" /\ waitUntil' = peek_time(timers)
                                  /\ UNCHANGED ptNow
    /\ UNCHANGED <<posted, stops, executed, cbVars, taVars, now, opsLeft>>
    /\ UNCHANGED <<obj, objects>>

\* cond.wait / cond.wait_timeout return after a notify_one, with the lock held
WakeNotified ==
    /\ Blocked /\ signal /\ mutex = "free"
    /\ pc' = "top" /\ mutex' = "loop" /\ signal' = FALSE /\ waitUntil' = 0
    /\ UNCHANGED <<state, list, posted, stops, chain, executed, ptNow, cbVars, taVars, now,
                   opsLeft>>
    /\ UNCHANGED <<obj, objects>>

\* cond.wait / cond.wait_timeout return spuriously
WakeSpurious ==
    /\ Blocked /\ ~signal /\ mutex = "free"
    /\ pc' = "top" /\ mutex' = "loop" /\ waitUntil' = 0
    /\ UNCHANGED <<mqVars, chain, executed, ptNow, cbVars, taVars, now, opsLeft>>
    /\ UNCHANGED <<obj, objects>>

\* a timed-out wait that keeps the guard while process_timers runs
Timeout_locked ==
    /\ pc = "twait" /\ now >= waitUntil /\ mutex = "free"
    /\ pc' = "pt" /\ ptNow' = now /\ signal' = FALSE /\ waitUntil' = 0
    /\ mutex' = "loop"
    /\ UNCHANGED <<state, list, posted, stops, chain, executed, cbVars, taVars, now,
                   opsLeft>>
    /\ UNCHANGED <<obj, objects>>

\* cond.wait_timeout times out: the lock is dropped and process_timers runs
Timeout ==
    /\ pc = "twait" /\ now >= waitUntil /\ mutex = "free"
    /\ pc' = "pt" /\ ptNow' = now /\ signal' = FALSE /\ waitUntil' = 0
    /\ UNCHANGED <<state, list, posted, stops, mutex, chain, executed, cbVars, taVars, now,
                   opsLeft>>
    /\ UNCHANGED <<obj, objects>>

\* time passes
Tick ==
    /\ now < MaxTime
    /\ now' = now + 1
    /\ UNCHANGED <<mqVars, loopVars, cbVars, taVars, opsLeft>>
    /\ UNCHANGED <<obj, objects>>

\* ------------------------------------------------------ specifications

\* Timer::new().with_callback(f) / with_callback_once(f)
TimerNew(f) == [state |-> "None", at |-> 0, act |-> f, cod |-> FALSE, alive |-> TRUE]

\* Schedule::new().with_callback(f)
ScheduleNew ==
    [state |-> "None", period |-> DefaultPeriod, last |-> 0, target |-> 0,
     act |-> TRUE, cod |-> FALSE, alive |-> TRUE]

\* the thread-local RunLoop, Core::new, MsgQueue::new, TimedActionBinaryHeap::new
\* and TimedActionNode::new, before any call
InitEngine ==
    /\ pc = "idle" /\ mutex = "free"
    /\ state = "Stopped" /\ list = <<>> /\ signal = FALSE
    /\ chain = <<>> /\ executed = [th \in Threads |-> <<>>]
    /\ posted = [th \in Threads |-> 0] /\ stops = 0
    /\ cbKind = None /\ cur = None /\ curF = None /\ cbDid = NoCalls
    /\ fired = [a \in Actions |-> 0]
    /\ now = 0 /\ ptNow = 0 /\ waitUntil = 0
    /\ ub = FALSE
    /\ obj = ObjNew
    /\ objects = Registry_new

\* TimedActionBinaryHeap::new, with the nodes of the actions in S
EmptyHeap(S) == [data |-> <<>>, index |-> [a \in S |-> 0], time |-> [a \in S |-> 0]]

InitLoop ==
    /\ InitEngine
    /\ timers = EmptyHeap(Actions)

Init ==
    /\ InitLoop
    /\ \E f \in {"mut", "once"} :
          timer = [t \in TimerIds |-> IF t = "t1" THEN TimerNew(f) ELSE TimerNew("mut")]
    /\ schedule = [s \in ScheduleIds |-> ScheduleNew]
    /\ opsLeft = MaxOps

LoopStep ==
    \/ RunEntry \/ ExecNext \/ PtPeek \/ CbReturn \/ LockTop \/ Top
    \/ WakeNotified \/ Timeout

Next ==
    \/ \E th \in Foreign : Post(th)
    \/ Stop
    \/ LoopPost
    \/ LoopStop
    \/ \E t \in TimerIds, d \in 0..MaxDur : TimerStart(t, d)
    \/ \E t \in TimerIds : TimerCancel(t)
    \/ \E t \in TimerIds : TimerDrop(t)
    \/ \E s \in ScheduleIds : ScheduleStart(s)
    \/ \E s \in ScheduleIds : ScheduleCancel(s)
    \/ \E s \in ScheduleIds, p \in 0..MaxDur : ScheduleSetPeriod(s, p)
    \/ \E s \in ScheduleIds : ScheduleDrop(s)
    \/ RunLock
    \/ LoopStep
    \/ WakeSpurious
    \/ Tick

Spec == Init /\ [][Next]_vars

\* The message queue and the engine, with foreign threads posting and stopping
\* and one timer that makes the engine's waits timed: the loop thread starts it
\* outside run(), when no timer is in the heap
InitMQ ==
    /\ InitLoop
    /\ timer = [t \in TimerIds |-> TimerNew("mut")]
    /\ schedule = [s \in ScheduleIds |-> ScheduleNew]
    /\ opsLeft = MaxLoopOps

NextMQ ==
    \/ \E th \in Foreign : Post(th)
    \/ Stop
    \/ LoopPost
    \/ LoopStop
    \/ \E d \in 0..MaxDur : pc = "idle" /\ timers.data = <<>> /\ TimerStart("t1", d)
    \/ RunLock
    \/ LoopStep
    \/ WakeSpurious
    \/ Tick

SpecMQ == InitMQ /\ [][NextMQ]_vars

\* The same, with the scheduling the claims about progress assume: the loop
\* thread is scheduled (it takes the lock when it is free, a notified wait and a
\* timed-out wait return) and user callbacks return.  A spurious wake-up, the
\* clock, and what other threads and user code do are not forced.
SpecLive == SpecMQ /\ WF_vars(LoopStep)

\* Two timers of one loop, driven by the loop thread alone: it starts, cancels
\* and drops them and calls stop, outside run() and inside their callbacks
NextTimer ==
    \/ LoopStop
    \/ \E t \in TimerIds, d \in 0..MaxDur : TimerStart(t, d)
    \/ \E t \in TimerIds : TimerCancel(t)
    \/ TimerDrop("t1")
    \/ RunLock
    \/ RunEntry \/ PtPeek \/ CbReturn \/ LockTop \/ Top \/ Timeout
    \/ Tick

SpecTimer == Init /\ [][NextTimer]_vars

\* A schedule and a timer of one loop, driven by the loop thread alone
NextSchedule ==
    \/ LoopStop
    \/ \E d \in 0..MaxDur : TimerStart("t1", d)
    \/ TimerCancel("t1")
    \/ \E s \in ScheduleIds : ScheduleStart(s)
    \/ \E s \in ScheduleIds : ScheduleCancel(s)
    \/ \E s \in ScheduleIds, p \in 0..MaxDur : ScheduleSetPeriod(s, p)
    \/ RunLock
    \/ RunEntry \/ PtPeek \/ CbReturn \/ LockTop \/ Top \/ Timeout
    \/ Tick

SpecSchedule == Init /\ [][NextSchedule]_vars

\* run() called from inside a callback: the lock is free there, and the match
\* on entry is that of any run().  From Stopped the call goes on as a loop of
\* its own inside the callback ("nested"), which is not followed further
LoopRun ==
    /\ pc = "cb" /\ Spend /\ mutex = "free" /\ obj.opc["loop"] = "idle"
    /\ LET m == EntryMatch(state)
       IN  /\ state' = m.state
           /\ pc' = CASE m.go = "return" -> "cb"
                      [] m.go = "on" -> "nested"
                      [] OTHER -> "panic"
           /\ mutex' = IF m.go = "unreachable" THEN "poisoned" ELSE mutex
    /\ UNCHANGED <<list, signal, posted, stops, chain, executed, ptNow, waitUntil,
                   cbVars, taVars, now, obj, objects>>

\* The heap alone, with six actions: any action not in the vector is pushed,
\* any action in it is adjusted or removed, with times up to MaxHeapTime
InitHeap ==
    /\ InitEngine
    /\ timers = EmptyHeap(HeapNodes)
    /\ timer = [t \in TimerIds |-> TimerNew("mut")]
    /\ schedule = [s \in ScheduleIds |-> ScheduleNew]
    /\ opsLeft = MaxHeapOps

HeapRest ==
    UNCHANGED <<mqVars, mutex, chain, executed, ptNow, waitUntil, cbVars, timer,
                schedule, now, obj, objects>>

\* push_timed_action
HPush(a, t) ==
    /\ pc = "idle" /\ Spend
    /\ \A i \in 1..Len(timers.data) : timers.data[i] # a
    /\ HeapCommit(HeapPush(timers, a, t), "idle")
    /\ HeapRest

\* adjust_timed_action
HAdjust(a, t) ==
    /\ pc = "idle" /\ Spend
    /\ \E i \in 1..Len(timers.data) : timers.data[i] = a
    /\ HeapCommit(HeapAdjust(timers, a, t), "idle")
    /\ HeapRest

\* remove_timed_action
HRemove(a) ==
    /\ pc = "idle" /\ Spend
    /\ \E i \in 1..Len(timers.data) : timers.data[i] = a
    /\ HeapCommit(HeapRemove(timers, a), "idle")
    /\ HeapRest

NextHeap ==
    \/ \E a \in HeapNodes, t \in 0..MaxHeapTime : HPush(a, t)
    \/ \E a \in HeapNodes, t \in 0..MaxHeapTime : HAdjust(a, t)
    \/ \E a \in HeapNodes : HRemove(a)

SpecHeap == InitHeap /\ [][NextHeap]_vars

\* SpecMQ with a loop thread that drops its handle of the loop object and ends
NextEnd ==
    \/ NextMQ
    \/ ObjDrop("loop") \/ DecWeak("loop") \/ Dispose("loop")
    \/ Teardown

SpecEnd == InitMQ /\ [][NextEnd]_vars

\* The registry of a loop whose thread creates loop objects, moves handles into
\* the values of other loop objects, drops handles, and ends
InitReg ==
    /\ InitLoop
    /\ timer = [t \in TimerIds |-> TimerNew("mut")]
    /\ schedule = [s \in ScheduleIds |-> ScheduleNew]
    /\ opsLeft = MaxRegOps

NextReg ==
    \/ \E n \in RegNodes, m \in RegNodes \cup {None} : RegNew(n, m)
    \/ \E n \in RegNodes : RegDrop(n)
    \/ \E n \in RegNodes : RegGive(n)
    \/ RegDropEnd
    \/ ObjDrop("loop") \/ DecWeak("loop") \/ Dispose("loop")
    \/ Teardown

SpecReg == InitReg /\ [][NextReg]_vars

\* SpecMQ where the timed action the loop thread starts is the timer or a
\* schedule: closures, timer callbacks and schedule callbacks all run
NextCb ==
    \/ NextMQ
    \/ pc = "idle" /\ timers.data = <<>> /\ ScheduleStart("s1")

SpecCb == InitMQ /\ [][NextCb]_vars

\* SpecMQ with callbacks that call run()
NextReent ==
    \/ NextMQ
    \/ LoopRun

SpecReent == InitMQ /\ [][NextReent]_vars

\* One loop object, created on the loop thread, whose handles are cloned, moved
\* between threads, downgraded, upgraded, posted through and dropped, while
\* the loop runs, is stopped and its thread ends
ObjStep(th) ==
    \/ \E to \in Threads : ObjClone(th, to)
    \/ \E to \in Threads : ObjDowngrade(th, to)
    \/ \E to \in Threads : ObjWeakClone(th, to)
    \/ ObjWeakDrop(th)
    \/ UpgradeLoad(th)
    \/ UpgradeCas(th)
    \/ ObjDrop(th)
    \/ DecWeak(th)
    \/ Dispose(th)
    \/ ObjPost(th)

NextObj ==
    \/ \E th \in Threads : ObjStep(th)
    \/ ObjPostEnd
    \/ Stop
    \/ RunLock
    \/ RunEntry \/ ExecNext \/ PtPeek \/ CbReturn \/ LockTop \/ Top \/ WakeNotified
    \/ Teardown

SpecObj == InitMQ /\ [][NextObj]_vars

\* The same, with every thread scheduled: the loop thread as in SpecLive, and a
\* thread inside a drop or an upgrade goes on with it
SpecObjLive ==
    /\ SpecObj
    /\ WF_vars(RunLock) /\ WF_vars(LoopStep) /\ WF_vars(ObjPostEnd)
    /\ \A th \in Threads :
          /\ WF_vars(UpgradeCas(th)) /\ WF_vars(DecWeak(th)) /\ SF_vars(Dispose(th))

\* SpecSchedule with fewer calls, a loop thread that is scheduled and callbacks
\* that return
InitPass ==
    /\ InitLoop
    /\ timer = [t \in TimerIds |-> TimerNew("mut")]
    /\ schedule = [s \in ScheduleIds |-> ScheduleNew]
    /\ opsLeft = MaxPassOps

SpecPass == InitPass /\ [][NextSchedule]_vars /\ WF_vars(LoopStep)

\* Timer::with_cancel_on_drop / Schedule::with_cancel_on_drop
with_cancel_on_drop(this, cancel_on_drop) == [this EXCEPT !.cod = cancel_on_drop]

\* A timer and a schedule built with either value of cancel_on_drop; the loop
\* thread starts them, drops their handles and calls stop
InitDrop ==
    /\ InitLoop
    /\ \E b \in BOOLEAN, f \in {"mut", "once"} :
          timer = [t \in TimerIds |-> with_cancel_on_drop(TimerNew(f), b)]
    /\ \E b \in BOOLEAN :
          schedule = [s \in ScheduleIds |-> with_cancel_on_drop(ScheduleNew, b)]
    /\ opsLeft = MaxOps

NextDrop ==
    \/ LoopStop
    \/ \E d \in 0..MaxDur : TimerStart("t1", d)
    \/ TimerDrop("t1")
    \/ \E s \in ScheduleIds : ScheduleStart(s)
    \/ \E s \in ScheduleIds : ScheduleDrop(s)
    \/ RunLock
    \/ RunEntry \/ PtPeek \/ CbReturn \/ LockTop \/ Top \/ Timeout
    \/ Tick

SpecDrop == InitDrop /\ [][NextDrop]_vars

\* ------------------------------------------------------------- claims

Msgs == {[from |-> th, n |-> k, kind |-> "msg"] : th \in Threads, k \in 1..MaxPosts}

Queued(m) == \E i \in 1..Len(list) : list[i].from = m.from /\ list[i].n = m.n

Executed(m) == m.n \in Range(executed[m.from])

\* run() is executing on the loop thread
InRun == pc \notin {"idle", "panic", "crashed"}

\* C1: FIFO per posting thread: the closures of one thread are executed in the
\* order in which that thread posted them (its n-th closure only after its
\* first n - 1), whatever other threads post in between.
C1_FifoPerThread ==
    \A th \in Threads :
        \A i \in 1..Len(executed[th]) : executed[th][i] = i

C1_Witness ==
    /\ Len(executed["a"]) >= 2
    /\ Len(executed["b"]) >= 1
    /\ posted["a"] = 2

\* C2: no lost wake-up: a closure that is in the queue while run() is executing
\* and no stop is requested is eventually executed (unless a stop is requested
\* first), and no closure is executed twice.
C2_NoLostWakeup ==
    /\ \A m \in Msgs :
          (Queued(m) /\ InRun /\ state # "Stopping") ~> (Executed(m) \/ state = "Stopping")
    /\ [](\A th \in Threads : \A i, j \in 1..Len(executed[th]) :
              executed[th][i] = executed[th][j] => i = j)

\* a foreign thread posted a closure while the loop thread was blocked in the
\* condvar (only then does post set MsgArrived); the loop thread has been
\* woken, holds the lock again and is about to drain the queue
C2_Witness ==
    /\ pc = "top" /\ state = "MsgArrived"
    /\ Len(list) >= 1 /\ list[1].from \in Foreign

\* C3: stop() terminates the loop: once the state is Stopping nothing but the
\* engine changes it, the engine changes it to Stopped and returns from run()
\* in the same step, and while run() is executing that step eventually comes.
C3_StopTerminates ==
    /\ [][state = "Stopping" /\ state' # "Stopping"
            => state' = "Stopped" /\ pc \in {"entry", "top"} /\ pc' = "idle"]_vars
    /\ (state = "Stopping" /\ InRun) ~> (state = "Stopped" /\ pc = "idle")

\* a foreign thread called stop() after run() had executed a closure; the loop
\* thread holds the lock again and is about to answer Stopping
C3_Witness ==
    /\ pc = "top" /\ state = "Stopping"
    /\ stops = 1 /\ opsLeft = MaxLoopOps
    /\ Len(executed["a"]) = 1

\* action a is in the heap vector
InHeap(h, a) == \E i \in 1..Len(h.data) : h.data[i] = a

\* the slots of the heap vector that hold action a
Slots(h, a) == {i \in 1..Len(h.data) : h.data[i] = a}

\* action a is registered: it is in the heap once, in the slot its node names
Registered(h, a) == Slots(h, a) = {h.index[a] + 1}

\* the step is one of the thread of the loop: the clock stands still
Moves == now' = now

\* the step is the return of the callback of timed action a
Returns(a) == pc = "cb" /\ cbKind \notin MsgKinds /\ cur = a /\ cbKind' = None

\* C4: a started Timer whose handle was dropped without cancel_on_drop stays
\* scheduled (the drop changes neither the heap nor the timer's state) and its
\* callback is still called when its time has come; when that callback has
\* called stop() and returns, the timer leaves the heap (it being registered
\* there) with the state left at Stopping, it never enters the heap again,
\* and the engine, at the top of its loop, answers Stopping by setting
\* Stopped and returning from run() with the heap untouched.
C4_DroppedTimerFiresAndLeaves ==
    [][/\ \A t \in TimerIds :
            /\ (timer[t].alive /\ ~timer'[t].alive /\ ~timer[t].cod)
                  => (timers' = timers /\ timer'[t].state = timer[t].state)
            /\ (Moves /\ pc = "pt" /\ ~timer[t].alive /\ peek(timers, ptNow) = t
                   /\ timer[t].act # "none")
                  => (pc' = "cb" /\ cur' = t)
            /\ (Returns(t) /\ ~timer[t].alive /\ cbDid.stop
                   /\ timer[t].state = "Processing"
                   /\ Registered(timers, t))
                  => (~InHeap(timers', t) /\ state' = "Stopping" /\ pc' = "pt")
            /\ (~timer[t].alive /\ ~InHeap(timers, t)) => ~InHeap(timers', t)
       /\ (Moves /\ pc = "top" /\ state = "Stopping")
             => (pc' = "idle" /\ state' = "Stopped" /\ timers' = timers)
      ]_vars

\* the callback of a dropped timer is running and has called stop()
C4_Witness ==
    /\ pc = "cb" /\ cbKind = "timer" /\ cur = "t1"
    /\ ~timer["t1"].alive /\ cbDid.stop
    /\ timer["t1"].state = "Processing"
    /\ timers.data = <<"t1">> /\ Registered(timers, "t1")

C6_StartRegistersOnce ==
    [][\A t \in TimerIds, d \in 0..MaxDur :
          /\ (pc = "idle" /\ timer[t].state = "None" /\ TimerStart(t, d))
                => (Cardinality(Slots(timers', t)) = 1 /\ timers'.time[t] = now + d
                    /\ Timer_is_active(timer'[t]))
          /\ (pc = "idle" /\ InHeap(timers, t) /\ TimerStart(t, d))
                => Len(timers'.data) = Len(timers.data)
      ]_vars

\* C7 as stated: cancel() outside a callback, on a started timer before its
\* deadline, takes it out of the heap and leaves it in state None.
C7_CancelRemoves ==
    [][\A t \in TimerIds :
          (pc = "idle" /\ InHeap(timers, t) /\ timers.time[t] > now /\ TimerCancel(t))
             => (~InHeap(timers', t) /\ timer'[t].state = "None"
                 /\ ~Timer_is_active(timer'[t]))
      ]_vars

\* C8 as stated: outside callbacks a second cancel() changes nothing that the
\* first one left: not the timer's state, not the heap.
C8_CancelIdempotent ==
    \A t \in TimerIds :
        (pc = "idle" /\ timer[t].alive) =>
            LET one == Timer_cancel(timer[t], timers, t)
                two == Timer_cancel(one.obj, one.hr.h, t)
            IN  one.hr.fault = "none" => (two.hr.fault = "none" /\ two = one)

\* the step is a cancel() (or a drop with cancel_on_drop) that the callback of
\* timed action a makes on a itself
SelfCancel(a) ==
    /\ pc = "cb" /\ cbKind \notin MsgKinds /\ cur = a
    /\ cbDid'.self = "cancel"
    /\ \/ a \in TimerIds /\ TimerCancel(a)
       \/ a \in ScheduleIds /\ ScheduleCancel(a)

\* C9: a cancel() that the callback of a Timer or Schedule makes on itself
\* removes nothing from the heap; when the callback returns after it (no start
\* on itself having followed), the action is taken out of the heap (it being
\* registered there) and is_active() is false; an action that is not in
\* the heap is not fired, so a timer that has cancelled itself in its 3rd
\* firing stays at 3 firings for as long as it is not started again.
C9_SelfCancel ==
    [][\A a \in Actions :
          /\ SelfCancel(a) => (timers' = timers /\ pc' = "cb")
          /\ (Returns(a) /\ cbDid.self = "cancel" /\ Registered(timers, a))
                => /\ ~InHeap(timers', a)
                   /\ IF a \in TimerIds
                      THEN timer'[a].state = "None" /\ ~Timer_is_active(timer'[a])
                      ELSE schedule'[a].state = "None" /\ ~Schedule_is_active(schedule'[a])
          /\ ~InHeap(timers, a) => fired'[a] = fired[a]
      ]_vars

\* the callback of a timer that started itself again in its first two firings
\* has cancelled itself in the 3rd and is about to return
C9_Witness ==
    /\ pc = "cb" /\ cbKind = "timer" /\ cur = "t1" /\ fired["t1"] = 3
    /\ cbDid.self = "cancel" /\ timer["t1"].state = "Processing"
    /\ Registered(timers, "t1")

\* C10 as stated: outside callbacks a Schedule is active exactly when it is
\* in the heap.
C10_ActiveIffRegistered ==
    \A s \in ScheduleIds :
        pc = "idle" => (Schedule_is_active(schedule[s]) <=> InHeap(timers, s))

\* C11 as stated: outside callbacks, dropping the handle of a Timer or Schedule
\* that is in the heap takes it out of the heap if cancel_on_drop is set, and
\* leaves the heap as it is if the flag is not set.
C11_CancelOnDrop ==
    [][/\ \A t \in TimerIds :
            (pc = "idle" /\ InHeap(timers, t) /\ TimerDrop(t))
               => IF timer[t].cod THEN ~InHeap(timers', t) ELSE timers' = timers
       /\ \A s \in ScheduleIds :
            (pc = "idle" /\ InHeap(timers, s) /\ ScheduleDrop(s))
               => IF schedule[s].cod THEN ~InHeap(timers', s) ELSE timers' = timers
      ]_vars

C13_DestroyedOnceByOwner ==
    /\ Len(obj.destroyedBy) <= 1
    /\ \A i \in 1..Len(obj.destroyedBy) : obj.destroyedBy[i] = "loop"
    /\ obj.node = "destroyed" => obj.strong = 0

\* a thread other than the owner gave up the last strong reference, and the
\* closure it posted has destroyed the node on the loop thread
C13_Witness ==
    /\ pc = "cb" /\ cbKind = "drop"
    /\ obj.destroyedBy = <<"loop">> /\ obj.node = "destroyed"
    /\ obj.strong = 0 /\ obj.left < MaxObjOps

\* ------------------------------------------------------------ C14
\* C14: once the last strong ObjectHandle has been dropped, on whatever thread,
\* the node and its value are eventually destroyed, by the thread of the owning
\* loop.
C14_LastDropDestroys ==
    (obj.strong = 0) ~> (obj.node = "destroyed" /\ obj.destroyedBy = <<"loop">>)
\* ------------------------------------------------------------ C15
\* C15: an upgrade yields a new strong handle exactly when strong is not 0 at
\* the moment of its compare-exchange (and equals the value it expects, which
\* is then not 0 either); once strong has reached 0 it stays 0, so no later
\* upgrade yields a handle.
C15_UpgradeIffStrong ==
    [][/\ \A th \in Threads :
            UpgradeCas(th) =>
               /\ obj'.hs[th] > obj.hs[th] <=> (obj.strong # 0 /\ obj.strong = obj.n[th])
               /\ obj'.hs[th] > obj.hs[th] => obj'.strong = obj.strong + 1
               /\ (obj'.opc[th] = "idle" /\ obj'.hs[th] = obj.hs[th]) <=> obj.n[th] = 0
               /\ obj.strong = 0 => obj'.opc[th] = "idle" \/ obj'.n[th] = 0
       /\ obj.strong = 0 => obj'.strong = 0]_vars

\* an upgrade that read strong = 1 while the last handle was still held comes
\* to its compare-exchange after that handle was dropped
C15_Witness ==
    \E th \in Threads :
       /\ obj.opc[th] = "cas" /\ obj.n[th] = 1 /\ obj.strong = 0
       /\ \E o \in Threads \ {th} : obj.opc[o] \in {"decweak", "dispose"}
\* ------------------------------------------------------------ C16
\* C16: run() called from inside a callback returns at once to the callback and
\* leaves the loop state as it was, in whatever state the callback runs.
C16_NestedRunIsNoOp ==
    [][LoopRun => (pc' = "cb" /\ state' = state)]_vars
\* ------------------------------------------------------------ C17
\* a closure posted while a stop request is pending is in the queue
LateQueued == \E i \in 1..Len(list) : list[i].late

\* C17 as stated: a closure posted after stop() is never executed.
C17_LateNeverExecuted ==
    [][ExecNext => ~Head(chain).late]_vars

\* C17, amended: a closure posted after stop() is enqueued without an error and
\* without a notification, and neither the run() that the stop ends nor a
\* run() that finds the stop request at its entry takes it from the queue; it
\* stays queued until the next run() drains it at its start, or until the
\* loop's thread ends, which discards it unexecuted.
C17_LateWaitsForNextRun ==
    [][/\ \A th \in Threads :
            (state = "Stopping" /\ (Post(th) \/ LoopPost)) =>
               /\ Len(list') = Len(list) + 1 /\ list'[Len(list')].late
               /\ state' = state /\ signal' = signal /\ pc' = pc
       /\ (LateQueued /\ (RunEntry \/ Top)) =>
            \/ state = "Stopping" /\ pc' = "idle" /\ list' = list
                  /\ chain' = chain /\ executed' = executed
            \/ pc = "entry" /\ state = "Stopped" /\ chain' = list /\ list' = <<>>
       /\ (LateQueued /\ Teardown) => (list' = <<>> /\ executed' = executed)
       /\ (LateQueued /\ ~RunEntry /\ ~Top /\ ~Teardown) =>
            \A i \in 1..Len(list) : list'[i] = list[i]]_vars

\* a closure posted after a stop, left in the queue by the run() that stopped,
\* has been drained by the next run() and is the next to be executed
C17_Witness ==
    /\ pc = "exec" /\ state = "Running"
    /\ Head(chain).late /\ Head(chain).kind = "msg"
\* ------------------------------------------------------------ C18
\* C18: once stop() has been called, by a callback or by another thread, no
\* posted closure and no timer or schedule callback starts before run()
\* returns.
C18_StopIsImmediate ==
    [][state = "Stopping" => ~(ExecNext \/ (PtPeek /\ pc' = "cb"))]_vars
\* ------------------------------------------------------------ C19
\* C19: a stop() called while the loop is not running leaves Stopping, however
\* often it is called; the next run() finds Stopping, sets Stopped and returns
\* at once, with the queue, the heap and everything executed or fired so far
\* as they were; the run() after that one finds Stopped and runs: it sets
\* Running and drains the queue.
C19_StopBeforeRun ==
    [][/\ (pc = "idle" /\ (Stop \/ LoopStop)) => (state' = "Stopping" /\ pc' = "idle")
       /\ (RunLock /\ stops > 0) => state \in {"Stopped", "Stopping"}
       /\ (RunEntry /\ state = "Stopping") =>
             /\ state' = "Stopped" /\ pc' = "idle" /\ mutex' = "free"
             /\ list' = list /\ chain' = chain /\ executed' = executed
             /\ fired' = fired /\ timers' = timers /\ timer' = timer
       /\ (RunEntry /\ state = "Stopped") =>
             /\ state' = "Running"
             /\ IF list = <<>> THEN pc' = "pt" ELSE pc' = "exec" /\ chain' = list]_vars

\* run() was called after stop() calls of another thread and of the loop thread
\* (its second call beside the start of the timer), made while the loop was not
\* running, with a closure queued and a timer due
C19_Witness ==
    /\ pc = "entry" /\ state = "Stopping" /\ stops = 1
    /\ opsLeft = MaxLoopOps - 2 /\ posted["loop"] = 0
    /\ Len(list) >= 1 /\ executed = [th \in Threads |-> <<>>]
    /\ timers.data # <<>> /\ timers.time[timers.data[1]] <= now
\* ------------------------------------------------------------ C20
\* C20: after any sequence of push, adjust and remove, each applied to a node
\* that is (for push: is not) in the heap, no slot other than the root holds
\* an earlier time than its parent slot.
C20_HeapOrder ==
    \A i \in 1..(Len(timers.data) - 1) :
        timers.time[At(timers, i)] >= timers.time[At(timers, (i - 1) \div 2)]
\* ------------------------------------------------------------ C21
\* C21: whatever start, cancel and drop calls and firings have happened, every
\* slot i of the heap vector holds an action whose node's index is i (so that
\* no action is in two slots).
C21_HeapIndex ==
    \A i \in 1..Len(timers.data) : timers.index[timers.data[i]] = i - 1
\* ------------------------------------------------------------ C22
\* C22: whenever the queue state is Waiting and the loop thread does not hold
\* the lock (so that other threads can read the state), the loop thread is
\* blocked in the condition variable: it is not in process_timers, in a
\* callback or anywhere else outside the wait.
C22_WaitingMeansBlocked ==
    (state = "Waiting" /\ mutex # "loop") => Blocked
\* ------------------------------------------------------------ C23
\* C23: at the top of the loop of run(), with the lock taken and the state
\* about to be matched, the state is never Stopped.
C23_NeverStoppedAtTop ==
    ~(pc = "top" /\ state = "Stopped")
\* ------------------------------------------------------------ C24
\* an ObjectHandle::post closure that has not yet given up its reference
PostPending ==
    \/ \E i \in 1..Len(list) : list[i].kind = "objpost"
    \/ \E i \in 1..Len(chain) : chain[i].kind = "objpost"
    \/ pc = "cb" /\ cbKind = "objpost" /\ ~obj.rel

\* C24: while strong > 0, weak >= 1; the control block is freed exactly when
\* weak reaches 0, it is never freed twice or used after it was freed, and when
\* it is freed no thread holds an ObjectHandle or an ObjectWeak, no
\* ObjectHandle::post closure is pending and no thread is inside an upgrade or
\* a decrement.
C24_ControlBlock ==
    /\ obj.strong > 0 => obj.weak >= 1
    /\ obj.ctl = "freed" <=> obj.weak = 0
    /\ ~obj.ub
    /\ obj.ctl = "freed" =>
          /\ \A th \in Threads :
                /\ obj.hs[th] = 0 /\ obj.ws[th] = 0
                /\ obj.opc[th] \in {"idle", "dispose"}
          /\ ~PostPending
          /\ obj.strong = 0

\* after clones, downgrades or posts the last reference of either kind is gone:
\* the node has been destroyed and the control block freed, and every thread
\* has finished its drop
C24_Witness ==
    /\ obj.ctl = "freed" /\ obj.weak = 0 /\ obj.strong = 0
    /\ obj.node = "destroyed" /\ obj.left < MaxObjOps
    /\ \A th \in Threads : obj.opc[th] = "idle"
\* ------------------------------------------------------------ C25
\* C25: outside a destruction the list of the registry holds exactly the nodes
\* created and not yet destroyed, with prev the inverse of next, and once the
\* loop's thread has ended no node is left allocated.
C25_RegistryList ==
    /\ objects.at = None =>
          /\ Listed(objects) = objects.live
          /\ \A n \in objects.live :
                objects.next[n] # None => objects.prev[objects.next[n]] = n
    /\ pc = "exited" => objects.live = {}
\* ------------------------------------------------------------ C28
\* C28: the registry is never borrowed while it is borrowed: no new_object and
\* no drop of a last handle on the loop thread, from inside the destruction of
\* another loop object either, ends in the panic of a second borrow_mut.
C28_NoReborrow ==
    ~(pc = "panic" /\ objects.borrowed)
\* ------------------------------------------------------------ C26
\* C26: while the loop thread executes a drained chain, runs process_timers or
\* is inside a user callback (a posted closure, a timer callback, a schedule
\* callback), it does not hold the mutex of the queue, so that a post or stop
\* made by the callback takes the lock without waiting.
C26_CallbacksUnlocked ==
    pc \in {"exec", "cb", "pt"} => mutex = "free"

\* a schedule callback, reached through a timed-out wait, has posted a closure
\* to its own loop
C26_Witness ==
    /\ pc = "cb" /\ cbKind = "schedule" /\ mutex = "free"
    /\ Len(list) >= 1 /\ list[Len(list)].from = "loop"
    /\ opsLeft = 0 /\ now > 0
\* ------------------------------------------------------------ C27
\* C27: every pass of process_timers ends: from its while test the loop thread
\* comes, after finitely many callbacks, to the point behind the loop (or
\* leaves it by a panic or a crash).
C27_PassTerminates ==
    (pc = "pt") ~> (pc \notin {"pt", "cb"})
====
